---- MODULE Spec2Model ----
(***************************************************************************)
(* Model of bot.py, the Telegram file-shop bot: the users and purchases    *)
(* tables of database.db, the process-wide CONFIG document, the product    *)
(* catalog read from products/<pid>/product.json, and the handlers that    *)
(* read and write them.  python-telegram-bot runs one handler at a time    *)
(* and requests.post blocks, so every handler is one atomic action.  What  *)
(* a handler does is a function of the state and of its input (the         *)
(* <handler>_result operators): the next value of what it writes, and the  *)
(* reply it sends.  A handler that only replies is a stuttering step.      *)
(***************************************************************************)
EXTENDS Integers, Sequences, FiniteSets, TLC

VARIABLES CONFIG, catalog, users, purchases, now

vars == <<CONFIG, catalog, users, purchases, now>>

(* ---------------------------- bounds ----------------------------------- *)
MaxPurchases == 2
MaxClock == 1
MaxPrice == 2
\* cap on sqlite_sequence.users for the inserts that are ignored
MaxUserSeq == 2

(* ------------------------- input universes ----------------------------- *)
Accounts == {1, 2}
Providers == {"zarinpal", "idpay", "nextpay"}
\* the checkout requests issued: <<account, plan, provider>>
Orders == {<<1, "economic", "zarinpal">>, <<2, "golden", "idpay">>,
           <<2, "economic", "nextpay">>}
\* the credential fields filled in config.json
CredentialSets == {{}, {"zarinpal"}}
Products == {"01"}
Plans == {"economic", "golden"}
Prices == 1..MaxPrice
\* proof texts
Words == {"abc", "xyz"}
\* decimal tokens, from "0" to one past the last row: str.isdigit() holds and
\* int() succeeds
Numerals == {ToString(n) : n \in 0..(MaxPurchases + 1)}
\* signed tokens: str.isdigit() fails and int() succeeds
SignedNumerals == {"-1", "+1"}
\* the one-character text U+00B2: str.isdigit() holds and int() raises
SuperscriptTwo == "sup2"
\* the label word that line 242 compares parts[0].lower() with
TxLabel == "tarakonesh"
\* Python's None, stored as NULL
NoneRef == "<None>"
\* how the POST to the provider ends
NetResponses == {"ok", "fail", "error"}
GatewayWords == {"idpay", "IDPay", "paypal"}

\* update.message.text after strip() and split(): empty, a bare proof, two
\* words, "<id> <proof>", "<label> <id> <proof>", "<label> <word> <proof>",
\* and the same with a first or second token that is signed or U+00B2
Messages ==
    {<<>>}
    \cup {<<w>> : w \in Words}
    \cup {<<"xyz", "abc">>}
    \cup {<<n, "abc">> : n \in Numerals}
    \cup {<<"1", "xyz">>}
    \cup {<<TxLabel, n, "abc">> : n \in Numerals}
    \cup {<<TxLabel, "abc", "xyz">>}
    \cup {<<n, "abc">> : n \in SignedNumerals \cup {SuperscriptTwo}}
    \cup {<<TxLabel, n, "abc">> : n \in SignedNumerals \cup {SuperscriptTwo}}

GatewayCommands ==
    {<<"/setgateway">>} \cup {<<"/setgateway", g>> : g \in GatewayWords}

(* --------------------------- catalog ----------------------------------- *)
DownloadLink(pid, plan) == "drive/" \o pid \o "/" \o plan

\* the "plans" object of a product.json whose prices are prices
PlanTable(pid, prices) ==
    [pl \in Plans |-> [price |-> prices[pl],
                       download_link |-> DownloadLink(pid, pl)]]

\* no readable product.json: no plan resolves
NoProduct == [pl \in {} |-> 0]

\* load_product(pid)["plans"][plan] resolves
Resolves(cat, pid, plan) == pid \in DOMAIN cat /\ plan \in DOMAIN cat[pid]

(* ------------------------- payment adapters ---------------------------- *)
\* secrets.token_urlsafe: a fresh opaque reference per call
create_link(n) == "token-" \o ToString(n)

\* cfg.get("<provider key>") is truthy
HasCredential(cfg, provider) ==
    CASE provider = "zarinpal" -> cfg.zarinpal_merchant_id
      [] provider = "idpay" -> cfg.idpay_api_key
      [] provider = "nextpay" -> cfg.nextpay_api_key
      [] OTHER -> FALSE

\* net is the outcome of the outbound POST: "ok" is the provider's success
\* code, "fail" any other answer, "error" an exception (requests missing,
\* transport error, timeout, malformed body), which the except clause turns
\* into False.
verify_with_provider(cfg, provider, ref, amount, net) ==
    IF HasCredential(cfg, provider) THEN net = "ok" ELSE FALSE

\* the three keys joined by "and" where the code joins them by "or"
keys_present_all(cfg) ==
    cfg.zarinpal_merchant_id /\ cfg.idpay_api_key /\ cfg.nextpay_api_key

keys_present(cfg) ==
    cfg.zarinpal_merchant_id \/ cfg.idpay_api_key \/ cfg.nextpay_api_key

\* receipt_handler's verified flag
Verified(cfg, provider, ref, amount, net) ==
    IF verify_with_provider(cfg, provider, ref, amount, net)
    THEN TRUE
    ELSE ~keys_present(cfg)

(* --------------------------- text parsing ------------------------------ *)
\* str.lower()
Lower(s) == IF s = "IDPay" THEN "idpay" ELSE s

\* str.isdigit()
IsDigit(s) == s \in Numerals \cup {SuperscriptTwo}
\* int(s) does not raise
IsInt(s) == s \in Numerals \cup SignedNumerals
\* int(s)
ToInt(s) ==
    IF s = "-1" THEN 0 - 1
    ELSE IF s = "+1" THEN 1
    ELSE CHOOSE n \in 0..(MaxPurchases + 1) : ToString(n) = s

\* parts = txt.split(); purchase_id / txid as receipt_handler extracts them:
\* in both id branches int() runs before txid is assigned, so when it raises
\* purchase_id and txid both stay None
ParseReceipt(parts) ==
    IF Lower(parts[1]) = TxLabel /\ Len(parts) >= 3
    THEN IF IsInt(parts[2])
         THEN [has_id |-> TRUE, purchase_id |-> ToInt(parts[2]), txid |-> parts[3]]
         ELSE [has_id |-> FALSE, purchase_id |-> 0, txid |-> NoneRef]
    ELSE IF Len(parts) = 2 /\ IsDigit(parts[1])
         THEN IF IsInt(parts[1])
              THEN [has_id |-> TRUE, purchase_id |-> ToInt(parts[1]), txid |-> parts[2]]
              ELSE [has_id |-> FALSE, purchase_id |-> 0, txid |-> NoneRef]
         ELSE [has_id |-> FALSE, purchase_id |-> 0, txid |-> parts[Len(parts)]]

(* ----------------------------- ledger ---------------------------------- *)
\* The users table is its rows, in insertion order, and its AUTOINCREMENT
\* counter (sqlite_sequence.users): a row inserted gets id seq + 1.
\* SELECT id FROM users WHERE telegram_id=?  (0: no row)
UserRow(us, tid) ==
    IF \E i \in DOMAIN us.rows : us.rows[i].telegram_id = tid
    THEN us.rows[CHOOSE i \in DOMAIN us.rows : us.rows[i].telegram_id = tid].id
    ELSE 0

\* INSERT INTO users: the row takes the next AUTOINCREMENT id
insert_user(us, tid) ==
    [rows |-> Append(us.rows, [id |-> us.seq + 1, telegram_id |-> tid]),
     seq |-> us.seq + 1]

\* INSERT OR IGNORE INTO users: telegram_id is UNIQUE; SQLite moves the
\* AUTOINCREMENT counter on even when the row is ignored
insert_or_ignore_user(us, tid) ==
    IF UserRow(us, tid) # 0 THEN [us EXCEPT !.seq = @ + 1] ELSE insert_user(us, tid)

\* the insert without the lookup before it
ensure_user_no_lookup(us, tid) == insert_user(us, tid)

\* startpay_handler: select the user row, insert it when absent
ensure_user(us, tid) ==
    IF UserRow(us, tid) # 0 THEN us ELSE insert_user(us, tid)

\* the price read again from the catalog where the stored amount belongs
verify_amount_live(p, cat) ==
    IF Resolves(cat, p.product_id, p.plan) THEN cat[p.product_id][p.plan].price
    ELSE p.amount

\* SET success = 1 - success where the code sets success=1
mark_success_toggle(ps, id, txid) ==
    [ps EXCEPT ![id].success = 1 - @, ![id].provider_ref = txid]

\* the admin comparison left out
is_admin_anyone(cfg, caller) == TRUE

\* amount = planinfo["price"]
snapshot_amount(cat, pid, plan) == cat[pid][plan].price

\* INSERT INTO purchases (...) VALUES (..., 0, created_at)
create_purchase(ps, uid, pid, plan, provider, ref, amount, t) ==
    Append(ps, [user_id |-> uid, product_id |-> pid, plan |-> plan,
                provider |-> provider, provider_ref |-> ref,
                amount |-> amount, success |-> 0, created_at |-> t])

Pending(ps) == {i \in DOMAIN ps : ps[i].success = 0}

\* SELECT * FROM purchases WHERE success=0 ORDER BY created_at DESC, first
\* row: created_at is in whole seconds and rows that tie come in an order SQL
\* leaves open, so every pending row of the greatest created_at can be first.
latest_pending(ps) ==
    {i \in Pending(ps) : \A j \in Pending(ps) : ps[j].created_at <= ps[i].created_at}

\* amount = p["amount"], the amount handed to verify_with_provider
verify_amount(p, cat) == p.amount

\* UPDATE purchases SET success=1, provider_ref=? WHERE id=?
mark_success(ps, id, txid) ==
    [ps EXCEPT ![id].success = 1, ![id].provider_ref = txid]

\* update.effective_user.id != int(CONFIG.get("admin_id") or 0)
is_admin(cfg, caller) == caller = cfg.admin_id

(* ------------------------------ Init ----------------------------------- *)
Init ==
    /\ \E creds \in CredentialSets :
          CONFIG = [admin_id |-> 1,
                    zarinpal_merchant_id |-> "zarinpal" \in creds,
                    idpay_api_key |-> "idpay" \in creds,
                    nextpay_api_key |-> "nextpay" \in creds,
                    payment_gateway |-> "zarinpal"]
    /\ catalog = [pid \in Products |-> PlanTable(pid, [pl \in Plans |-> 1])]
    /\ users = [rows |-> <<>>, seq |-> 0]
    /\ purchases = <<>>
    /\ now = 0

(* ---------------------------- environment ------------------------------ *)
\* time.time() moves on by a second
Tick ==
    /\ now < MaxClock
    /\ now' = now + 1
    /\ UNCHANGED <<CONFIG, catalog, users, purchases>>

\* products/<pid>/product.json is written (created or edited) on disk
PutProduct(pid, prices) ==
    /\ catalog' = [catalog EXCEPT ![pid] = PlanTable(pid, prices)]
    /\ UNCHANGED <<CONFIG, users, purchases, now>>

\* products/<pid>/product.json is deleted or made unreadable
RemoveProduct(pid) ==
    /\ catalog' = [catalog EXCEPT ![pid] = NoProduct]
    /\ UNCHANGED <<CONFIG, users, purchases, now>>

(* ------------------------------ handlers ------------------------------- *)
NoPayload == "<none>"

\* /start: the insert, ignored for an account already stored, still moves the
\* AUTOINCREMENT counter; the ignored inserts stop at MaxUserSeq
start(u) ==
    /\ UserRow(users, u) # 0 => users.seq < MaxUserSeq
    /\ users' = insert_or_ignore_user(users, u)
    /\ UNCHANGED <<CONFIG, catalog, purchases, now>>

startpay_result(us, ps, cat, t, u, pid, plan, provider) ==
    IF ~Resolves(cat, pid, plan)
    THEN [users |-> us, purchases |-> ps, reply |-> "exception", purchase_id |-> 0]
    ELSE LET us2 == ensure_user(us, u) IN
         [users |-> us2,
          purchases |-> create_purchase(ps, UserRow(us2, u), pid, plan, provider,
                                        create_link(Len(ps) + 1),
                                        snapshot_amount(cat, pid, plan), t),
          reply |-> "link", purchase_id |-> Len(ps) + 1]

startpay_handler(u, pid, plan, provider) ==
    LET res == startpay_result(users, purchases, catalog, now, u, pid, plan, provider)
    IN /\ Len(res.purchases) <= MaxPurchases
       /\ users' = res.users
       /\ purchases' = res.purchases
       /\ UNCHANGED <<CONFIG, catalog, now>>

\* the rows the handler's lookup can come back with; 0 stands for no row
receipt_targets(ps, parts) ==
    IF parts = <<>> THEN {0}
    ELSE LET r == ParseReceipt(parts) IN
         IF r.has_id THEN (IF r.purchase_id \in DOMAIN ps THEN {r.purchase_id} ELSE {0})
         ELSE IF Pending(ps) = {} THEN {0}
         ELSE latest_pending(ps)

ReceiptReply(ps, reply, id, vamount, payload) ==
    [purchases |-> ps, reply |-> reply, purchase_id |-> id, vamount |-> vamount,
     payload |-> payload]

\* receipt_handler on text parts, with id the row its lookup came back with
receipt_result(cfg, cat, ps, parts, net, id) ==
    IF parts = <<>> THEN ReceiptReply(ps, "ignored", 0, 0, NoPayload)
    ELSE LET r == ParseReceipt(parts) IN
         IF id = 0
         THEN ReceiptReply(ps, IF r.has_id THEN "not_found" ELSE "no_pending", 0, 0,
                           NoPayload)
         ELSE LET p == ps[id]
                  amount == verify_amount(p, cat)
              IN IF Verified(cfg, p.provider, r.txid, amount, net)
                 THEN LET marked == mark_success(ps, id, r.txid) IN
                      IF Resolves(cat, p.product_id, p.plan)
                      THEN ReceiptReply(marked, "confirmed", id, amount,
                                        cat[p.product_id][p.plan].download_link)
                      ELSE ReceiptReply(marked, "exception", id, amount, NoPayload)
                 ELSE ReceiptReply(ps, "retry", id, amount, NoPayload)

receipt_handler(parts, net) ==
    /\ \E id \in receipt_targets(purchases, parts) :
          purchases' = receipt_result(CONFIG, catalog, purchases, parts, net, id).purchases
    /\ UNCHANGED <<CONFIG, catalog, users, now>>

admin_list_result(cfg, ps, u) ==
    IF ~is_admin(cfg, u) THEN [reply |-> "denied"]
    ELSE IF ps = <<>> THEN [reply |-> "empty"]
    ELSE [reply |-> "listing"]

\* the handler only reads and replies
admin_list_purchases(u) ==
    /\ admin_list_result(CONFIG, purchases, u).reply \in {"denied", "empty", "listing"}
    /\ UNCHANGED <<CONFIG, catalog, users, purchases, now>>

admin_set_gateway_result(cfg, u, parts) ==
    IF ~is_admin(cfg, u) THEN [CONFIG |-> cfg, reply |-> "denied"]
    ELSE IF Len(parts) # 2 THEN [CONFIG |-> cfg, reply |-> "usage"]
    ELSE IF Lower(parts[2]) \notin Providers THEN [CONFIG |-> cfg, reply |-> "invalid"]
    ELSE [CONFIG |-> [cfg EXCEPT !.payment_gateway = Lower(parts[2])],
          reply |-> "changed"]

admin_set_gateway(u, parts) ==
    /\ CONFIG' = admin_set_gateway_result(CONFIG, u, parts).CONFIG
    /\ UNCHANGED <<catalog, users, purchases, now>>

Next ==
    \/ Tick
    \/ \E pid \in Products, prices \in [Plans -> Prices] : PutProduct(pid, prices)
    \/ \E pid \in Products : RemoveProduct(pid)
    \/ \E u \in Accounts : start(u)
    \/ \E o \in Orders, pid \in Products : startpay_handler(o[1], pid, o[2], o[3])
    \/ \E parts \in Messages, net \in NetResponses : receipt_handler(parts, net)
    \/ \E u \in Accounts : admin_list_purchases(u)
    \/ \E u \in Accounts, parts \in GatewayCommands : admin_set_gateway(u, parts)

Spec == Init /\ [][Next]_vars

(* ======================== the claims, C1 to C10 ======================== *)
\* what receipt_handler does in the current state on parts, net and row id
Res(parts, net, id) == receipt_result(CONFIG, catalog, purchases, parts, net, id)

\* the submissions that reach purchase row id in the current state
Submissions(id) ==
    {s \in Messages \X NetResponses : id \in receipt_targets(purchases, s[1])}

RowIds == DOMAIN purchases

Newest(S) == CHOOSE i \in S : \A j \in S : j <= i

\* C1: a proof submitted for a PENDING purchase whose provider has no
\* credential is auto-accepted (the purchase is marked success and, the plan
\* being in the catalog, its payload is returned), whatever the other
\* providers' credentials are.
C1_PerProviderAutoAccept ==
    \A id \in RowIds : \A s \in Submissions(id) :
        (purchases[id].success = 0 /\ ~HasCredential(CONFIG, purchases[id].provider))
        => /\ Res(s[1], s[2], id).purchases[id].success = 1
           /\ Resolves(catalog, purchases[id].product_id, purchases[id].plan)
              => Res(s[1], s[2], id).payload
                 = catalog[purchases[id].product_id][purchases[id].plan].download_link

\* C2: provider_ref is overwritten at most once: a proof submitted by explicit
\* id for a purchase that is already successful leaves its provider_ref and
\* its success as they are.
C2_RefOverwrittenOnce ==
    \A id \in RowIds : \A s \in Submissions(id) :
        (purchases[id].success = 1 /\ ParseReceipt(s[1]).has_id)
        => /\ Res(s[1], s[2], id).purchases[id].provider_ref = purchases[id].provider_ref
           /\ Res(s[1], s[2], id).purchases[id].success = purchases[id].success

\* C3: a proof submission mutates nothing partially: either the targeted
\* purchase is marked success and the plan's payload is returned, or the
\* ledger is left as it was.
C3_NoPartialMutation ==
    \A id \in RowIds \cup {0} : \A s \in Submissions(id) :
        \/ Res(s[1], s[2], id).purchases = purchases
        \/ /\ id # 0
           /\ Res(s[1], s[2], id).purchases[id].success = 1
           /\ Res(s[1], s[2], id).payload # NoPayload

\* one step: no success goes from 1 to another value and no row goes away;
\* the UPDATE applied to a successful row leaves its success at 1
C4_Step ==
    /\ \A id \in RowIds :
          purchases[id].success = 1
          => id \in DOMAIN purchases' /\ purchases'[id].success = 1
    /\ \A id \in RowIds : \A txid \in Words \cup {NoneRef} :
          purchases[id].success = 1 => mark_success(purchases, id, txid)[id].success = 1

\* C4: success is monotonic: no step takes a purchase's success from 1 back
\* to 0 or removes the row, and marking a successful purchase again leaves
\* success at 1.
C4_SuccessMonotonic == [][C4_Step]_vars

\* a successful purchase that a further submission marks again
C4_Witness ==
    \E id \in RowIds : \E s \in Submissions(id) :
        /\ purchases[id].success = 1
        /\ purchases[id].provider_ref = "abc"
        /\ Res(s[1], s[2], id).reply = "confirmed"
        /\ Res(s[1], s[2], id).purchases[id].provider_ref = "xyz"
        /\ Res(s[1], s[2], id).purchases[id].success = 1

\* C5: with no credential configured at all, any non-empty text that resolves
\* to a PENDING purchase marks it success and returns the plan's download
\* link; for the labelled form <label> N <proof> the purchase marked is N and
\* its provider_ref becomes <proof>.
C5_DegradedTrust ==
    ~keys_present(CONFIG) =>
    \A id \in RowIds : \A s \in Submissions(id) :
        (s[1] # <<>> /\ purchases[id].success = 0)
        => /\ Res(s[1], s[2], id).purchases[id].success = 1
           /\ Res(s[1], s[2], id).payload
              = DownloadLink(purchases[id].product_id, purchases[id].plan)
           /\ (Len(s[1]) = 3 /\ s[1][1] = TxLabel /\ IsInt(s[1][2]))
              => /\ id = ToInt(s[1][2])
                 /\ Res(s[1], s[2], id).purchases[id].provider_ref = s[1][3]

\* C6: when the purchase's provider has a credential and its verify call
\* returns false (a transport error, timeout or malformed answer is such a
\* false), the submission leaves every purchase as it was, the retry prompt
\* is the reply and no payload is returned.
C6_FailedVerifyKeepsPending ==
    \A id \in RowIds : \A s \in Submissions(id) :
        LET p == purchases[id]
            txid == ParseReceipt(s[1]).txid
        IN /\ (HasCredential(CONFIG, p.provider) /\ s[2] \in {"fail", "error"})
              => ~verify_with_provider(CONFIG, p.provider, txid, p.amount, s[2])
           /\ (/\ HasCredential(CONFIG, p.provider)
               /\ ~verify_with_provider(CONFIG, p.provider, txid, p.amount, s[2]))
              => /\ Res(s[1], s[2], id).purchases = purchases
                 /\ Res(s[1], s[2], id).reply = "retry"
                 /\ Res(s[1], s[2], id).payload = NoPayload

\* a PENDING purchase under a provider with a credential, whose verify call
\* ends in a transport error: the retry prompt
C6_Witness ==
    \E id \in RowIds : \E s \in Submissions(id) :
        /\ purchases[id].success = 0
        /\ HasCredential(CONFIG, purchases[id].provider)
        /\ s[2] = "error"
        /\ Res(s[1], s[2], id).reply = "retry"
        /\ \E other \in RowIds : purchases[other].success = 1

\* C7: a proof without a purchase id goes to the most recently created
\* purchase with success=0, whoever submits it, and is answered NotFound with
\* the ledger unchanged when no purchase is pending.
C7_LatestPending ==
    \A parts \in Messages :
        (parts # <<>> /\ ~ParseReceipt(parts).has_id)
        => IF Pending(purchases) = {}
           THEN /\ receipt_targets(purchases, parts) = {0}
                /\ \A net \in NetResponses :
                      /\ Res(parts, net, 0).reply = "no_pending"
                      /\ Res(parts, net, 0).purchases = purchases
           ELSE receipt_targets(purchases, parts) = {Newest(Pending(purchases))}

\* one step: stored amounts stay, and a row added holds the price its plan
\* has in the catalog at that step
C8_Step ==
    /\ \A id \in RowIds :
          id \in DOMAIN purchases' /\ purchases'[id].amount = purchases[id].amount
    /\ Len(purchases') > Len(purchases)
       => LET p == purchases'[Len(purchases')]
          IN p.amount = catalog[p.product_id][p.plan].price

\* every submission that reaches a row hands its stored amount to verify
C8_VerifyAmount ==
    \A id \in RowIds : \A s \in Submissions(id) :
        Res(s[1], s[2], id).vamount = purchases[id].amount

\* C8: the amount stored by begin_checkout is the plan's price at the call, no
\* step (a price edit in the catalog, a proof submission) changes a stored
\* amount, and verification is called with the stored amount.
C8_AmountSnapshot == [][C8_Step]_vars /\ []C8_VerifyAmount

\* a purchase verified at its stored amount after the plan's price was edited
C8_Witness ==
    \E id \in RowIds :
        /\ purchases[id].success = 1
        /\ Resolves(catalog, purchases[id].product_id, purchases[id].plan)
        /\ catalog[purchases[id].product_id][purchases[id].plan].price
           # purchases[id].amount

\* C9: list-purchases and set-gateway called by anyone but the admin reply
\* with the denial and leave the configuration, payment_gateway included, as
\* it was; neither handler writes the ledger.
C9_NonAdminDenied ==
    \A u \in Accounts :
        u # CONFIG.admin_id
        => /\ admin_list_result(CONFIG, purchases, u).reply = "denied"
           /\ \A parts \in GatewayCommands :
                 /\ admin_set_gateway_result(CONFIG, u, parts).reply = "denied"
                 /\ admin_set_gateway_result(CONFIG, u, parts).CONFIG = CONFIG

\* a ledger with purchases and a gateway the admin has set, where a caller
\* who is not the admin asks for another gateway and is denied
C9_Witness ==
    /\ purchases # <<>>
    /\ CONFIG.payment_gateway = "idpay"
    /\ \E u \in Accounts :
          /\ u # CONFIG.admin_id
          /\ admin_set_gateway_result(CONFIG, u, <<"/setgateway", "idpay">>).reply
             = "denied"

UserIds == {users.rows[i].id : i \in DOMAIN users.rows}

\* C10: every purchase's user_id is the id of a row of users, and no two rows
\* of users have the same telegram_id or the same id.
C10_UsersConsistent ==
    /\ \A id \in RowIds : purchases[id].user_id \in UserIds
    /\ \A i, j \in DOMAIN users.rows :
          (\/ users.rows[i].telegram_id = users.rows[j].telegram_id
           \/ users.rows[i].id = users.rows[j].id) => i = j

\* an account that ran /start twice, next to an account that bought twice and
\* whose row took the id after the ignored insert
C10_Witness ==
    /\ Len(purchases) = 2
    /\ purchases[1].user_id = 3
    /\ purchases[2].user_id = 3
    /\ Len(users.rows) = 2
    /\ users.rows[1].telegram_id = 1

====
